---- MODULE Spec2Model ----
(***************************************************************************)
(* The /api/send pipeline of english-coach-backend: CORS, rate limiter,    *)
(* bearer-token gate, field validators, HTML composition, mail dispatch.   *)
(* Both variants of server.ts are modelled: the static allow-list          *)
(* (corsOptions) and the ALLOWED_ORIGINS callback (dynamicCorsOptions).    *)
(*                                                                         *)
(* Strings are sequences of one-character strings.  A JavaScript value is  *)
(* a record tagged with its type.                                          *)
(***************************************************************************)
EXTENDS Integers, Sequences, FiniteSets, TLC

\* ---------------------------------------------------------------- bounds

\* RATE_LIMIT_MAX of the deployment (server.ts reads it from the environment).
RateLimitMax == 1
\* RATE_LIMIT_WINDOW_MS of the deployment, in clock ticks.
WindowMs == 1
\* Longest credential part of an Authorization header that is enumerated.
MaxTokLen == 3

\* Requests received in one behaviour, and the last clock tick.
MaxReq == RateLimitMax + 2
MaxTime == WindowMs

\* ------------------------------------------------------ JavaScript values

Undefined == [t |-> "undefined"]
Str(s) == [t |-> "string", s |-> s]
Bool(b) == [t |-> "boolean", b |-> b]

WhiteSpace == {" ", "\n"}

\* String.prototype.trim
trim(s) ==
  IF \A i \in 1..Len(s) : s[i] \in WhiteSpace THEN <<>>
  ELSE LET lo == CHOOSE i \in 1..Len(s) :
                   s[i] \notin WhiteSpace /\ \A j \in 1..(i - 1) : s[j] \in WhiteSpace
           hi == CHOOSE i \in 1..Len(s) :
                   s[i] \notin WhiteSpace /\ \A j \in (i + 1)..Len(s) : s[j] \in WhiteSpace
       IN SubSeq(s, lo, hi)

\* express-validator's toString of a field value: undefined gives "".
toString(v) ==
  CASE v.t = "string" -> v.s
    [] v.t = "boolean" -> IF v.b THEN <<"t","r","u","e">> ELSE <<"f","a","l","s","e">>
    [] OTHER -> <<>>

\* A template literal's ${v}.
Interpolate(v) ==
  CASE v.t = "string" -> v.s
    [] v.t = "boolean" -> IF v.b THEN <<"t","r","u","e">> ELSE <<"f","a","l","s","e">>
    [] OTHER -> <<"u","n","d","e","f","i","n","e","d">>

\* JavaScript truthiness, as optional({checkFalsy: true}) and ?: use it.
Falsy(v) ==
  \/ v.t = "undefined"
  \/ v.t = "string" /\ v.s = <<>>
  \/ v.t = "boolean" /\ ~v.b

\* --------------------------------------------------- middleware/auth.ts

\* process.env.API_KEY of the deployment.
API_KEY == Str(<<"k", "y">>)

BearerScheme == <<"B", "e", "a", "r", "e", "r", " ">>

startsWith(s, p) == Len(s) >= Len(p) /\ SubSeq(s, 1, Len(p)) = p

slice(s, n) == SubSeq(s, n + 1, Len(s))

\* The credential part of a header that uses the Bearer scheme, as sent.
SuppliedToken(authHeader) == slice(authHeader.s, Len(BearerScheme))

\* The token requireApiKey compares with the secret.
Token(authHeader) == trim(slice(authHeader.s, Len(BearerScheme)))

UsesBearer(authHeader) ==
  /\ ~Falsy(authHeader)
  /\ startsWith(authHeader.s, BearerScheme)

\* requireApiKey with the comparison made before the trim.
GateStatusUntrimmed(authHeader) ==
  IF ~UsesBearer(authHeader) THEN 401
  ELSE IF Str(SuppliedToken(authHeader)) # API_KEY THEN 403
  ELSE 0

\* requireApiKey's verdict: 401, 403, or 0 for next().
GateStatus(authHeader) ==
  IF ~UsesBearer(authHeader) THEN 401
  ELSE IF Str(Token(authHeader)) # API_KEY THEN 403
  ELSE 0

GateBody(status) ==
  IF status = 401 THEN [error |-> "Missing or malformed Authorization header"]
  ELSE [error |-> "Invalid API key"]

\* ------------------------------------------------ express-validator chains

MaxNameLen == 100
MaxExperienceLen == 1000

UserChars == {"j", "e", "c", "a", "b"}

\* validator.js isEmail: a local part, a last "@", a domain of dot-separated
\* non-empty labels whose last label has at least two characters.
isEmail(s) ==
  \E at \in 2..(Len(s) - 1) :
    /\ s[at] = "@"
    /\ \A i \in 1..(at - 1) : s[i] \in UserChars
    /\ \A i \in (at + 1)..Len(s) : s[i] \in UserChars \cup {"."}
    /\ s[at + 1] # "."
    /\ \E dot \in (at + 2)..(Len(s) - 2) :
         /\ s[dot] = "."
         /\ \A i \in (dot + 1)..Len(s) : s[i] # "."
    /\ \A i \in (at + 1)..(Len(s) - 1) : ~(s[i] = "." /\ s[i + 1] = ".")

\* validator.js isBoolean on the field's string form.
isBoolean(s) ==
  s \in {<<"t","r","u","e">>, <<"f","a","l","s","e">>, <<"1">>, <<"0">>}

notEmpty(v) == toString(v) # <<>>

Fields ==
  <<"name", "email", "contact", "timeSlot", "purpose", "timeframe",
    "weeklyTime", "experience", "termsAgreed">>

\* Whether the chain of a field reports an error for the body as received.
Violated(b, f) ==
  CASE f = "name" ->
         LET n == Len(trim(toString(b.name))) IN ~(1 <= n /\ n <= MaxNameLen)
    [] f = "email" -> ~isEmail(trim(toString(b.email)))
    [] f = "experience" ->
         /\ ~Falsy(b.experience)
         /\ Len(trim(toString(b.experience))) > MaxExperienceLen
    [] f = "termsAgreed" -> ~isBoolean(toString(b.termsAgreed))
    [] OTHER -> ~notEmpty(b[f])

Message(f) ==
  CASE f = "name" -> "Name is required (1-100 chars)"
    [] f = "email" -> "Valid email required"
    [] f = "contact" -> "Missing contact method"
    [] f = "timeSlot" -> "Missing time slot"
    [] f = "purpose" -> "Missing purpose"
    [] f = "timeframe" -> "Missing timeframe"
    [] f = "weeklyTime" -> "Missing weekly time"
    [] f = "experience" -> "Message max length is 1000 chars"
    [] OTHER -> "Terms agreement is required"

RECURSIVE Collect(_, _)
\* The errors of the chains from the i-th on, in the order of the chains.
Collect(b, i) ==
  IF i > Len(Fields) THEN <<>>
  ELSE (IF Violated(b, Fields[i])
          THEN <<[param |-> Fields[i], msg |-> Message(Fields[i])]>>
          ELSE <<>>) \o Collect(b, i + 1)

\* validationResult(req).array()
validationResult(b) == Collect(b, 1)

\* req.body after the sanitizers of the chains have run.
Sanitized(b) ==
  [b EXCEPT !.name = Str(trim(toString(b.name))),
            !.email = Str(trim(toString(b.email))),
            !.experience = IF Falsy(b.experience) THEN b.experience
                           ELSE Str(trim(toString(b.experience)))]

\* ------------------------------------------------------ the HTML message

BR == "<br/>"
NoExperience == "<em>(no experience provided)</em>"

\* experience.replace(/\n/g, '<br/>')
replace(s) == [i \in 1..Len(s) |-> IF s[i] = "\n" THEN BR ELSE s[i]]

safeEexperience(experience) ==
  IF ~Falsy(experience) THEN replace(Interpolate(experience))
  ELSE <<NoExperience>>

\* The places of the template that interpolate a field of the submission.
html(b) ==
  [name |-> Interpolate(b.name),
   email |-> Interpolate(b.email),
   contact |-> Interpolate(b.contact),
   timeSlot |-> Interpolate(b.timeSlot),
   purpose |-> Interpolate(b.purpose),
   timeframe |-> Interpolate(b.timeframe),
   weeklyTime |-> Interpolate(b.weeklyTime),
   experience |-> safeEexperience(b.experience),
   termsAgreed |-> Interpolate(b.termsAgreed),
   ipAddress |-> Interpolate(b.ipAddress),
   browserInfo |-> Interpolate(b.browserInfo),
   timeZone |-> Interpolate(b.timeZone)]

\* The argument of transporter.sendMail.
Mail(b) ==
  [from |-> "FROM_EMAIL", to |-> "TO_EMAIL",
   subject |-> Interpolate(b.name), html |-> html(b)]

\* ------------------------------------------------------------------ CORS

\* corsOptions.origin of the static variant.
corsOptions ==
  {"http://localhost:5173", "http://localhost:5174", "http://localhost:5175",
   "https://english-coach.online", "https://www.english-coach.online",
   "https://english-coach.pages.dev"}

\* process.env.ALLOWED_ORIGINS of the deployment, split at the commas.
ALLOWED_ORIGINS == {"https://english-coach.online"}

\* An origin option that lets every origin in (origin: true).
AllowedAny(variant, origin) == TRUE

\* A request without an Origin header has origin "" (as falsy as undefined).
Allowed(variant, origin) ==
  IF variant = "static" THEN origin \in corsOptions
  ELSE origin = "" \/ origin \in ALLOWED_ORIGINS

\* cors with preflightContinue: a preflight goes on to the next handler.
corsPreflightContinue(variant, method, origin) ==
  IF variant = "dynamic" /\ ~Allowed(variant, origin)
    THEN [acao |-> "", ended |-> TRUE, status |-> 500]
  ELSE [acao |-> IF Allowed(variant, origin) THEN origin ELSE "",
        ended |-> FALSE, status |-> 0]

\* app.use(cors(...)): the Access-Control-Allow-Origin it sets ("" for none),
\* whether it ended the response, and the status it ended it with.  The
\* callback of dynamicCorsOptions fails a disallowed origin with an error,
\* which the default error handler of express answers with 500.
cors(variant, method, origin) ==
  IF variant = "dynamic" /\ ~Allowed(variant, origin)
    THEN [acao |-> "", ended |-> TRUE, status |-> 500]
  ELSE [acao |-> IF Allowed(variant, origin) THEN origin ELSE "",
        ended |-> method = "OPTIONS",
        status |-> IF method = "OPTIONS" THEN 204 ELSE 0]

\* app.options('/api/send', cors()): the wildcard preflight handler.
preflight == [acao |-> "*", ended |-> TRUE, status |-> 204]

\* ---------------------------------------------------------- rate limiter

\* The store's increment of one caller's counter at time t: a counter whose
\* window has elapsed starts again.
increment(client, t) ==
  LET c == IF client.resetTime <= t
             THEN [totalHits |-> 0, resetTime |-> t + WindowMs]
             ELSE client
  IN [c EXCEPT !.totalHits = @ + 1]

TooMany == "Too many attempts, please try again later."

\* ---------------------------------------------------------------- inputs

Methods == {"POST", "OPTIONS"}
Origins == {"https://english-coach.online", "https://evil.example", ""}
IPs == {"10.0.0.1", "10.0.0.2"}

GoodHeader == Str(BearerScheme \o <<"k", "y">>)
AuthHeaders == {Undefined, GoodHeader, Str(BearerScheme \o <<"k">>)}

JaneEmail == <<"j", "@", "e", ".", "c", "a">>

EmptyBody ==
  [name |-> Undefined, email |-> Undefined, contact |-> Undefined,
   timeSlot |-> Undefined, purpose |-> Undefined, timeframe |-> Undefined,
   weeklyTime |-> Undefined, experience |-> Undefined,
   termsAgreed |-> Undefined, ipAddress |-> Undefined,
   browserInfo |-> Undefined, timeZone |-> Undefined]

\* The submission of the specification's example: it has no purpose.
JaneDoe ==
  [EmptyBody EXCEPT !.name = Str(<<"J", "a", "n", "e">>),
                    !.email = Str(JaneEmail),
                    !.contact = Str(<<"5">>),
                    !.timeSlot = Str(<<"M">>),
                    !.timeframe = Str(<<"2">>),
                    !.weeklyTime = Str(<<"5">>),
                    !.termsAgreed = Bool(TRUE)]

ValidBody == [JaneDoe EXCEPT !.purpose = Str(<<"w">>)]

PaddedBody == [ValidBody EXCEPT !.name = Str(<<" ", "J", "o", " ">>)]

Bodies == {EmptyBody, JaneDoe, ValidBody, PaddedBody}

\* A preflight carries neither credentials nor a body.
Requests ==
  [method : {"POST"}, origin : Origins, ip : IPs, auth : AuthHeaders,
   body : Bodies]
  \cup [method : {"OPTIONS"}, origin : Origins, ip : IPs,
        auth : {Undefined}, body : {EmptyBody}]

\* The requests of a burst: valid submissions of either caller.
BurstRequests ==
  [method : {"POST"}, origin : {"https://english-coach.online"}, ip : IPs,
   auth : {GoodHeader}, body : {ValidBody}]

Rep(c, n) == [i \in 1..n |-> c]

\* Authorization headers: a scheme and up to MaxTokLen further characters.
\* The HTTP parser strips the white space around a header's value.
Schemes ==
  {<<>>, BearerScheme, <<"B", "e", "a", "r", "e", "r">>,
   <<"b", "e", "a", "r", "e", "r", " ">>, <<"B", "a", "s", "i", "c", " ">>}

TokChars == {" ", "k", "y", "x"}

WideHeaders ==
  {Undefined} \cup
  {Str(trim(sch \o rest)) :
     sch \in Schemes,
     rest \in UNION {[1..n -> TokChars] : n \in 0..MaxTokLen}}

\* Submissions around the limits of every chain.
WideBodies ==
  [name : {Undefined, Str(<<" ", " ">>), Str(<<" ", "J", "o", " ">>),
           Str(Rep("a", MaxNameLen)), Str(Rep("a", MaxNameLen + 1))},
   email : {Undefined, Str(<<"j", "@", "e", ".", "c">>),
            Str(<<" ">> \o JaneEmail \o <<" ">>)},
   contact : {Undefined, Str(<<>>), Str(<<" ">>)},
   timeSlot : {Undefined, Str(<<"M">>)},
   purpose : {Undefined, Str(<<>>), Str(<<"a", "\n", "<", "b", ">">>)},
   timeframe : {Undefined, Str(<<"2">>)},
   weeklyTime : {Undefined, Str(<<"5">>)},
   experience : {Undefined, Str(<<" ">>), Str(<<"a", "\n", "<", "i", ">">>),
                 Str(Rep("a", MaxExperienceLen) \o <<" ">>),
                 Str(Rep("a", MaxExperienceLen + 1))},
   termsAgreed : {Undefined, Bool(TRUE), Bool(FALSE),
                  Str(<<"t", "r", "u", "e">>), Str(<<"y", "e", "s">>)},
   ipAddress : {Undefined}, browserInfo : {Undefined},
   timeZone : {Str(<<"U", "T", "C">>)}]

\* What the relay's failure looks like to the catch block; responseCode 0
\* stands for an error without one.
RelayErrors ==
  {[message |-> "Invalid login", responseCode |-> 535],
   [message |-> "connect ECONNREFUSED", responseCode |-> 0]}

\* ----------------------------------------------------------------- state

VARIABLES
  variant,   \* which server.ts runs: "static" or "dynamic"
  req,       \* the requests, in the order received: what was sent
             \* (payload), req.body, the middleware that ran, what the
             \* limiter told (current, resetTime), the response
  store,     \* the rate limiter's counter of each caller
  now,       \* the clock
  outbox     \* the messages the relay has accepted, by request

vars == <<variant, req, store, now, outbox>>

Ids == 1..MaxReq
NoBody == [error |-> "", errors |-> <<>>, text |-> ""]

New ==
  [pc |-> "new", method |-> "", origin |-> "", ip |-> "", auth |-> Undefined,
   payload |-> EmptyBody, body |-> EmptyBody, ran |-> <<>>, status |-> 0, resBody |-> NoBody,
   acao |-> "", current |-> 0, resetTime |-> 0, errors |-> <<>>,
   sendMail |-> <<>>]

Open == {i \in Ids : req[i].pc \notin {"new", "closed"}}

\* The requests whose response has not been sent yet.
InFlight == {i \in Open : req[i].pc # "done"}

Init ==
  /\ variant \in {"static", "dynamic"}
  /\ req = [i \in Ids |-> New]
  /\ store = [k \in IPs |-> [totalHits |-> 0, resetTime |-> 0]]
  /\ now = 0
  /\ outbox = [i \in Ids |-> <<>>]

\* res.status(status).json/send(body): the response ends the request.
Respond(r, stage, status, body) ==
  [r EXCEPT !.pc = "done", !.ran = Append(@, stage), !.status = status,
            !.resBody = body]

\* The request moves on to the next middleware.
Pass(r, stage, next) == [r EXCEPT !.pc = next, !.ran = Append(@, stage)]

\* A request arrives and app.use(cors(...)) runs; a preflight the global
\* middleware let through would reach app.options('/api/send', cors()).
Receive(i, Q, free) ==
  /\ req[i].pc = "new"
  /\ \A j \in Ids : j < i => req[j].pc # "new"
  /\ free
  /\ \E q \in Q :
       LET r == [New EXCEPT !.method = q.method, !.origin = q.origin,
                            !.ip = q.ip, !.auth = q.auth,
                            !.payload = q.body, !.body = q.body]
           c == cors(variant, q.method, q.origin)
       IN req' = [req EXCEPT ![i] =
            IF c.ended
              THEN [Respond(r, "cors", c.status, NoBody) EXCEPT !.acao = c.acao]
            ELSE IF q.method = "OPTIONS"
              THEN [Respond([r EXCEPT !.ran = <<"cors">>], "preflight",
                            preflight.status, NoBody)
                      EXCEPT !.acao = preflight.acao]
            ELSE [Pass(r, "cors", "limit") EXCEPT !.acao = c.acao]]
  /\ UNCHANGED <<variant, store, now, outbox>>

\* rateLimit with one counter for all callers.
rateLimitOneKey(i) ==
  /\ req[i].pc = "limit"
  /\ LET c == increment(store["10.0.0.1"], now)
         r == [req[i] EXCEPT !.current = c.totalHits,
                             !.resetTime = c.resetTime]
     IN /\ store' = [store EXCEPT !["10.0.0.1"] = c]
        /\ req' = [req EXCEPT ![i] =
             IF c.totalHits > RateLimitMax
               THEN Respond(r, "limit", 429, [NoBody EXCEPT !.text = TooMany])
             ELSE Pass(r, "limit", "auth")]
  /\ UNCHANGED <<variant, now, outbox>>

\* rateLimit whose write of the counter is lost while another request of the
\* caller awaits the relay.
rateLimitLostUpdate(i) ==
  /\ req[i].pc = "limit"
  /\ LET c == increment(store[req[i].ip], now)
         r == [req[i] EXCEPT !.current = c.totalHits,
                             !.resetTime = c.resetTime]
     IN /\ store' =
             IF \E j \in Ids : j # i /\ req[j].ip = req[i].ip /\ req[j].pc = "sending"
               THEN store
             ELSE [store EXCEPT ![req[i].ip] = c]
        /\ req' = [req EXCEPT ![i] =
             IF c.totalHits > RateLimitMax
               THEN Respond(r, "limit", 429, [NoBody EXCEPT !.text = TooMany])
             ELSE Pass(r, "limit", "auth")]
  /\ UNCHANGED <<variant, now, outbox>>

\* app.use('/api/send', rateLimit({...})), keyed by the caller's address.
rateLimit(i) ==
  /\ req[i].pc = "limit"
  /\ LET c == increment(store[req[i].ip], now)
         r == [req[i] EXCEPT !.current = c.totalHits,
                             !.resetTime = c.resetTime]
     IN /\ store' = [store EXCEPT ![req[i].ip] = c]
        /\ req' = [req EXCEPT ![i] =
             IF c.totalHits > RateLimitMax
               THEN Respond(r, "limit", 429, [NoBody EXCEPT !.text = TooMany])
             ELSE Pass(r, "limit", "auth")]
  /\ UNCHANGED <<variant, now, outbox>>

\* requireApiKey without its returns: next() is called after a rejection too.
requireApiKeyNoReturn(i) ==
  /\ req[i].pc = "auth"
  /\ LET status == GateStatus(req[i].auth)
     IN req' = [req EXCEPT ![i] =
          IF status # 0
            THEN [Pass(@, "auth", "validate")
                    EXCEPT !.status = status,
                           !.resBody = [NoBody EXCEPT !.error = GateBody(status).error]]
          ELSE Pass(@, "auth", "validate")]
  /\ UNCHANGED <<variant, store, now, outbox>>

requireApiKey(i) ==
  /\ req[i].pc = "auth"
  /\ LET status == GateStatus(req[i].auth)
     IN req' = [req EXCEPT ![i] =
          IF status # 0
            THEN Respond(@, "auth", status,
                         [NoBody EXCEPT !.error = GateBody(status).error])
          ELSE Pass(@, "auth", "validate")]
  /\ UNCHANGED <<variant, store, now, outbox>>

\* The validation chains run, sanitize req.body and record their errors.
validators(i) ==
  /\ req[i].pc = "validate"
  /\ req' = [req EXCEPT ![i] =
       [Pass(@, "validate", "handler")
          EXCEPT !.errors = validationResult(req[i].body),
                 !.body = Sanitized(req[i].body)]]
  /\ UNCHANGED <<variant, store, now, outbox>>

\* The route handler up to its await of transporter.sendMail.
handler(i) ==
  /\ req[i].pc = "handler"
  /\ req' = [req EXCEPT ![i] =
       IF req[i].errors # <<>>
         THEN Respond(@, "handler", 400,
                      [NoBody EXCEPT !.errors = req[i].errors])
       ELSE [Pass(@, "handler", "sending")
               EXCEPT !.sendMail = Append(@, Mail(req[i].body))]]
  /\ UNCHANGED <<variant, store, now, outbox>>

\* A dispatch that drops a message the relay has already accepted.
sendMailOkDedup(i) ==
  /\ req[i].pc = "sending"
  /\ outbox' =
       IF \E j \in Ids : outbox[j] # <<>> /\ outbox[j][1] = req[i].sendMail[1]
         THEN outbox
       ELSE [outbox EXCEPT ![i] = Append(@, req[i].sendMail[1])]
  /\ req' = [req EXCEPT ![i] =
       Respond(@, "sendMail", 200, [NoBody EXCEPT !.text = "OK"])]
  /\ UNCHANGED <<variant, store, now>>

\* The relay accepts the message: res.sendStatus(200).
sendMailOk(i) ==
  /\ req[i].pc = "sending"
  /\ outbox' = [outbox EXCEPT ![i] = Append(@, req[i].sendMail[Len(req[i].sendMail)])]
  /\ req' = [req EXCEPT ![i] =
       Respond(@, "sendMail", 200, [NoBody EXCEPT !.text = "OK"])]
  /\ UNCHANGED <<variant, store, now>>

\* A catch block that passes the relay's message on.
FailureLeak(err) == [NoBody EXCEPT !.error = err.message]

\* The response the catch block sends for err.
Failure(err) == [NoBody EXCEPT !.error = "Failed to send email"]

\* sendMail rejects with err: the catch block logs err to the console, which
\* is no state of the server, and answers 500.
catch(r, err) == Respond(r, "sendMail", 500, Failure(err))

sendMailFail(i) ==
  /\ req[i].pc = "sending"
  /\ \E err \in RelayErrors :
       req' = [req EXCEPT ![i] = catch(@, err)]
  /\ UNCHANGED <<variant, store, now, outbox>>

\* The response has been written; the request object is dropped.
Close(i) ==
  /\ req[i].pc = "done"
  /\ req' = [req EXCEPT ![i] = [New EXCEPT !.pc = "closed"]]
  /\ UNCHANGED <<variant, store, now, outbox>>

Tick ==
  /\ now < MaxTime
  /\ now' = now + 1
  /\ UNCHANGED <<variant, req, store, outbox>>

\* The requests are handled one after the other.
Next ==
  \/ \E i \in Ids :
       \/ Receive(i, Requests, Open = {})
       \/ rateLimit(i)
       \/ requireApiKey(i)
       \/ validators(i)
       \/ handler(i)
       \/ sendMailOk(i)
       \/ sendMailFail(i)
       \/ Close(i)
  \/ Tick

Spec == Init /\ [][Next]_vars

\* The requests of the callers are handled concurrently, and every request
\* stays on record.
NextBurst ==
  \/ \E i \in Ids :
       \/ Receive(i, BurstRequests, Cardinality(InFlight) <= RateLimitMax)
       \/ rateLimit(i)
       \/ requireApiKey(i)
       \/ validators(i)
       \/ handler(i)
       \/ sendMailOk(i)
       \/ sendMailFail(i)
  \/ Tick

\* A request of the first caller that the limiter has passed on.
Admitted(pc, auth, body) ==
  [New EXCEPT !.pc = pc, !.method = "POST",
              !.origin = "https://english-coach.online", !.ip = "10.0.0.1",
              !.auth = auth, !.payload = body, !.body = body,
              !.ran = IF pc = "auth" THEN <<"cors", "limit">>
                      ELSE <<"cors", "limit", "auth">>,
              !.acao = "https://english-coach.online", !.current = 1,
              !.resetTime = WindowMs]

\* Neither the gate nor the chains read the CORS options.
InitAdmitted(pc, H, B) ==
  /\ variant = "static"
  /\ \E h \in H, b \in B :
       req = [i \in Ids |-> IF i = 1 THEN Admitted(pc, h, b) ELSE New]
  /\ store = [k \in IPs |->
       IF k = "10.0.0.1" THEN increment([totalHits |-> 0, resetTime |-> 0], 0)
       ELSE [totalHits |-> 0, resetTime |-> 0]]
  /\ now = 0
  /\ outbox = [i \in Ids |-> <<>>]

\* The gate on every Authorization header.
InitGate == InitAdmitted("auth", WideHeaders, {ValidBody})

NextGate == \E i \in Ids : requireApiKey(i)

SpecGate == InitGate /\ [][NextGate]_vars

\* The chains and the handler on every submission.
InitValidate == InitAdmitted("validate", {GoodHeader}, WideBodies)

NextValidate ==
  \E i \in Ids :
    \/ validators(i)
    \/ handler(i)
    \/ sendMailOk(i)
    \/ sendMailFail(i)

SpecValidate == InitValidate /\ [][NextValidate]_vars

\* The two variants differ in their CORS options alone, and both allow the
\* origin of the burst.
InitBurst == Init /\ variant = "static"

SpecBurst == InitBurst /\ [][NextBurst]_vars

\* ================================================================ claims

Live == {i \in Ids : req[i].pc \notin {"new", "closed"}}

Ran(i, stage) == \E k \in 1..Len(req[i].ran) : req[i].ran[k] = stage

Last(i) == req[i].ran[Len(req[i].ran)]

Spaces == UNION {[1..n -> {" "}] : n \in 0..MaxTokLen}

\* The header is the Bearer scheme, the secret, and spaces around the secret.
PaddedSecret(h) ==
  /\ h.t = "string"
  /\ \E a \in Spaces, b \in Spaces : h.s = BearerScheme \o a \o API_KEY.s \o b

\* The header is the Bearer scheme followed by exactly the secret.
ExactSecret(h) == h.t = "string" /\ h.s = BearerScheme \o API_KEY.s

HasScheme(h) ==
  /\ h.t = "string"
  /\ Len(h.s) >= 7
  /\ [k \in 1..7 |-> h.s[k]] = <<"B", "e", "a", "r", "e", "r", " ">>

\* The store and the outbox as InitGate leaves them.
Untouched ==
  /\ now = 0
  /\ \A k \in IPs :
       store[k] = IF k = "10.0.0.1" THEN [totalHits |-> 1, resetTime |-> WindowMs]
                  ELSE [totalHits |-> 0, resetTime |-> 0]
  /\ \A i \in Ids : outbox[i] = <<>>

\* C1 as stated: a header that is absent or does not use the "Bearer " scheme
\* is answered 401, a Bearer header whose token is not exactly the secret is
\* answered 403, the request proceeds only when the token is exactly the
\* secret, and the gate changes no state.
C1_ExactToken ==
  \A i \in Ids : Ran(i, "auth") =>
    /\ ~HasScheme(req[i].auth) => req[i].status = 401
    /\ HasScheme(req[i].auth) /\ ~ExactSecret(req[i].auth) => req[i].status = 403
    /\ req[i].pc = "validate" => ExactSecret(req[i].auth)
    /\ Untouched

\* C1 as amended: 401 exactly for a header that is absent or does not use the
\* "Bearer " scheme, 403 exactly for a Bearer header whose token, with the
\* white space around it removed, is not the secret, and the request proceeds
\* exactly when that trimmed token is the secret; the gate changes no state.
C1_TrimmedToken ==
  \A i \in Ids : Ran(i, "auth") =>
    /\ req[i].status = 401 <=> ~HasScheme(req[i].auth)
    /\ req[i].status = 403 <=>
         HasScheme(req[i].auth) /\ ~PaddedSecret(req[i].auth)
    /\ req[i].pc = "validate" <=> PaddedSecret(req[i].auth)
    /\ req[i].pc \in {"validate", "done"}
    /\ req[i].pc = "done" =>
         /\ req[i].status \in {401, 403}
         /\ req[i].resBody = [NoBody EXCEPT !.error =
              IF req[i].status = 401
                THEN "Missing or malformed Authorization header"
              ELSE "Invalid API key"]
    /\ Untouched

\* The gate has passed a request whose token has a space before the secret.
C1_Witness ==
  \E i \in Ids :
    /\ Ran(i, "auth")
    /\ req[i].pc = "validate"
    /\ ~ExactSecret(req[i].auth)

\* ----------------------------------------------------------------- C2

NonEmptyText(v) == v.t = "string" /\ v.s # <<>>

\* The fields C2 lists, each valid and non-empty, and termsAgreed = true.
ListedFieldsValid(p) ==
  /\ p.name.t = "string"
  /\ Len(trim(p.name.s)) \in 1..MaxNameLen
  /\ p.email.t = "string"
  /\ isEmail(trim(p.email.s))
  /\ NonEmptyText(p.contact)
  /\ NonEmptyText(p.timeSlot)
  /\ NonEmptyText(p.timeframe)
  /\ NonEmptyText(p.weeklyTime)
  /\ p.termsAgreed = Bool(TRUE)

WithinLimit(i) == req[i].current \in 1..RateLimitMax

RelayFailed(i) == Ran(i, "sendMail") /\ req[i].status = 500

\* Request i was answered 200 and caused exactly one dispatch, which carries
\* its name and its email.
OneDispatch(i) ==
  /\ req[i].status = 200
  /\ Len(req[i].sendMail) = 1
  /\ Len(outbox[i]) = 1
  /\ outbox[i][1].html.name = trim(req[i].payload.name.s)
  /\ outbox[i][1].html.email = trim(req[i].payload.email.s)
  /\ outbox[i][1].subject = trim(req[i].payload.name.s)

C5_SendFailure ==
  \A i \in Ids :
    (req[i].pc = "done" /\ Ran(i, "sendMail") /\ req[i].status # 200) =>
      /\ req[i].status = 500
      /\ req[i].resBody = [error |-> "Failed to send email",
                           errors |-> <<>>, text |-> ""]
      /\ Len(req[i].sendMail) = 1
      /\ outbox[i] = <<>>

\* A request whose sendMail failed has been answered.
C5_Witness ==
  \E i \in Ids :
    req[i].pc = "done" /\ Ran(i, "sendMail") /\ req[i].status = 500

\* ----------------------------------------------------------------- C6

AllowList == IF variant = "static" THEN corsOptions ELSE ALLOWED_ORIGINS

\* C6: a request, of any method, whose Origin is not in the allow-list gets
\* no Access-Control-Allow-Origin: neither its origin nor the wildcard.
C6_NoAllowOrigin ==
  \A i \in Live :
    (req[i].origin # "" /\ req[i].origin \notin AllowList) =>
      /\ req[i].acao = ""
      /\ ~Ran(i, "preflight")

\* A preflight from an origin outside the static allow-list was answered.
C6_Witness ==
  \E i \in Live :
    /\ variant = "static"
    /\ req[i].method = "OPTIONS"
    /\ req[i].origin = "https://evil.example"
    /\ req[i].pc = "done"

\* ----------------------------------------------------------------- C7

Stages == <<"cors", "limit", "auth", "validate", "handler", "sendMail">>

Upto(n) == [k \in 1..n |-> Stages[k]]

C9_PreflightAlone ==
  \A i \in Live : req[i].method = "OPTIONS" =>
    /\ req[i].pc = "done"
    /\ req[i].ran = <<"cors">>
    /\ req[i].status \in {204, 500}
    /\ req[i].current = 0
    /\ req[i].errors = <<>>
    /\ req[i].sendMail = <<>>
    /\ outbox[i] = <<>>
    /\ \A k \in IPs : store[k].totalHits <= Cardinality({j \in Ids : j < i})

\* A preflight from a disallowed origin was answered while a caller's counter
\* stood at its maximum.
C9_Witness ==
  \E i \in Live :
    /\ req[i].method = "OPTIONS"
    /\ req[i].origin = "https://evil.example"
    /\ req[i].pc = "done"
    /\ store[req[i].ip].totalHits = i - 1
    /\ i > 1

\* ----------------------------------------------------------------- C3

RuleFields ==
  {"name", "email", "contact", "timeSlot", "timeframe", "weeklyTime",
   "experience", "termsAgreed"}

\* The field rules of the Submission: termsAgreed is a genuine boolean, not a
\* string that reads as one.
Breaks(p, f) ==
  CASE f = "name" ->
         p.name.t # "string" \/ Len(trim(p.name.s)) \notin 1..MaxNameLen
    [] f = "email" -> p.email.t # "string" \/ ~isEmail(trim(p.email.s))
    [] f = "experience" ->
         p.experience.t = "string" /\ Len(trim(p.experience.s)) > MaxExperienceLen
    [] f = "termsAgreed" -> p.termsAgreed.t # "boolean"
    [] OTHER -> ~NonEmptyText(p[f])

Reported(i, f) ==
  \E k \in 1..Len(req[i].resBody.errors) : req[i].resBody.errors[k].param = f

\* C3: an authenticated submission that violates a field rule is answered 400
\* with an entry for every violated field, and no mail is dispatched.
C3_EveryViolation ==
  \A i \in Ids :
    ( /\ req[i].pc = "done"
      /\ ExactSecret(req[i].auth)
      /\ \E f \in RuleFields : Breaks(req[i].payload, f) ) =>
        /\ req[i].status = 400
        /\ \A f \in RuleFields : Breaks(req[i].payload, f) => Reported(i, f)
        /\ req[i].sendMail = <<>>
        /\ outbox[i] = <<>>

\* What the chains do collect: every chain that fails has its entry, in the
\* order of the chains, and then nothing is sent.
C3_ChainsCollected ==
  \A i \in Ids :
    ( /\ req[i].pc = "done"
      /\ \E k \in 1..Len(Fields) : Violated(req[i].payload, Fields[k]) ) =>
        /\ req[i].status = 400
        /\ \A k \in 1..Len(Fields) :
             Violated(req[i].payload, Fields[k]) => Reported(i, Fields[k])
        /\ req[i].sendMail = <<>>
        /\ outbox[i] = <<>>

\* ---------------------------------------------------------------- C10

Count(s, c) == Cardinality({n \in 1..Len(s) : s[n] = c})

\* The rendering of a free-text field: every line break became the marker
\* and nothing of the text reads as markup.
Rendered(in, out) ==
  /\ Count(out, "\n") = 0
  /\ Count(out, BR) = Count(in, "\n")
  /\ Count(out, "<") = 0
  /\ Count(out, ">") = 0

\* C10: in every composed message the line breaks of experience and of
\* purpose appear as <br/>, and neither field is embedded as raw markup.
C10_SafeBody ==
  \A i \in Ids : \A k \in 1..Len(req[i].sendMail) :
    /\ req[i].payload.purpose.t = "string" =>
         Rendered(req[i].payload.purpose.s, req[i].sendMail[k].html.purpose)
    /\ (req[i].payload.experience.t = "string"
          /\ trim(req[i].payload.experience.s) # <<>>) =>
         Rendered(trim(req[i].payload.experience.s),
                  req[i].sendMail[k].html.experience)

\* What does hold of experience alone: its line breaks became <br/>.
C10_ExperienceBreaks ==
  \A i \in Ids : \A k \in 1..Len(req[i].sendMail) :
    (req[i].payload.experience.t = "string"
       /\ trim(req[i].payload.experience.s) # <<>>) =>
      /\ Count(req[i].sendMail[k].html.experience, "\n") = 0
      /\ Count(req[i].sendMail[k].html.experience, BR)
           = Count(trim(req[i].payload.experience.s), "\n")

\* ------------------------------------------------------------ C4, C8

Counted(i) == req[i].current > 0

SameWindow(i, j) ==
  req[i].ip = req[j].ip /\ req[i].resetTime = req[j].resetTime

\* The requests of i's caller that the limiter counted in i's window, up to
\* and including i.
Before(i) ==
  {j \in Ids : Counted(j) /\ SameWindow(i, j) /\ req[j].current <= req[i].current}

\* In each window of each caller the requests are numbered 1, 2, ... as the
\* limiter counts them, whatever the other callers do; the first RateLimitMax
\* go on, the others are answered 429 with the configured message.
C4_FirstMaxPass ==
  \A i \in Ids : Counted(i) =>
    /\ req[i].current = Cardinality(Before(i))
    /\ req[i].current <= RateLimitMax => Ran(i, "limit") /\ req[i].status # 429
    /\ req[i].current > RateLimitMax =>
         /\ req[i].pc = "done"
         /\ req[i].status = 429
         /\ req[i].resBody.text = "Too many attempts, please try again later."
         /\ req[i].ran = <<"cors", "limit">>

\* When the limiter counts a request, the request joins the window of its
\* caller that has not elapsed, and starts a new one, as its first request,
\* when there is none.
C4_WindowElapses ==
  \A i \in Ids : (req[i].pc = "limit" /\ req'[i].pc # "limit") =>
    LET open == {j \in Ids : Counted(j) /\ req[j].ip = req[i].ip
                               /\ req[j].resetTime > now}
    IN /\ \A j \in open : req'[i].resetTime = req[j].resetTime
       /\ open = {} => req'[i].resetTime = now + WindowMs /\ req'[i].current = 1

\* C4: per caller and window the first max requests pass and the rest get
\* 429; after the window the counter starts again; callers are independent.
C4_RateLimit == [](C4_FirstMaxPass) /\ [][C4_WindowElapses]_vars

\* One caller had its last request within the limit passed and a further one
\* of the window answered 429, and after the window its request passed again.
C4_Witness ==
  \E i \in Ids, j \in Ids, k \in Ids :
    /\ req[i].ip = req[j].ip /\ req[j].ip = req[k].ip
    /\ req[i].current = RateLimitMax /\ req[i].status # 429 /\ Ran(i, "limit")
    /\ req[j].status = 429 /\ SameWindow(i, j)
    /\ req[k].resetTime > req[i].resetTime
    /\ req[k].current = 1 /\ Ran(k, "limit")

\* The requests the limiter has counted for caller k in k's current window.
InWindow(k) ==
  {i \in Ids : Counted(i) /\ req[i].ip = k /\ req[i].resetTime = store[k].resetTime}

\* C8: under every interleaving the counter of a caller equals the number of
\* its requests the limiter has counted in the window, and at most max of
\* them were passed on.
C8_AtomicCount ==
  \A k \in IPs :
    /\ store[k].totalHits = Cardinality(InWindow(k))
    /\ Cardinality({i \in InWindow(k) : req[i].status # 429}) <= RateLimitMax

\* A request of a caller was answered 429 while an earlier one of the same
\* window still awaits sendMail.
C8_Witness ==
  \E i \in Ids, j \in Ids :
    /\ i # j
    /\ Counted(i) /\ Counted(j) /\ SameWindow(i, j)
    /\ req[i].pc = "sending"
    /\ req[j].status = 429

====
